---- MODULE Spec2Model ----
(***************************************************************************)
(* Model of w3af's soft-404 classifier                                     *)
(* (w3af/core/controllers/core_helpers/fingerprint_404.py).                *)
(*                                                                         *)
(* Strings are sequences of lines, a line is a sequence of one-character   *)
(* strings.  An absent value (Python None) is the empty tuple None and a   *)
(* present value v is Some(v) = <<v>>.                                     *)
(***************************************************************************)
EXTENDS Integers, Sequences, FiniteSets, TLC

\* ------------------------------------------------------------------ bounds
MaxCalls == 3       \* is_404 calls of a sequential run
MaxOrderCalls == 2  \* is_404 calls of a sequential run over every response
MaxConcCalls == 2   \* is_404 calls of a concurrent run
MaxScanCalls == 3   \* is_404 calls of a concurrent run without reset
MaxSweepCalls == 52 \* is_404 calls of a crawl through the directories
MaxSweepFailures == 1 \* forced-404 requests that fail during the crawl
MaxInst == 2        \* Fingerprint404 objects constructed in a run
MemoCapacity == 2   \* entries of the recent-decision memo
Threads == {1, 2}

\* --------------------------------------------------------------- constants
IS_EQUAL_RATIO == 90
NOT_404_RESPONSE_CODES == {200, 500, 301, 302, 303, 307, 401}
\* Scaled down from the comparator's real limit so that short strings reach
\* both sides of the size gate.
MAX_FUZZY_LENGTH == 22
\* line 41: the capacity of the in-memory tier of the signature store.
MAX_404_IN_MEMORY == 50
NO_CONTENT_MSG == "No Content"

None == <<>>
Some(v) == <<v>>

\* ------------------------------------------------------------ string tools
Rep(c, n) == [i \in 1..n |-> c]

RECURSIVE Flat(_)
Flat(s) == IF s = <<>> THEN <<>> ELSE Head(s) \o Flat(Tail(s))

StrLen(s) == Len(Flat(s))

Min(a, b) == IF a < b THEN a ELSE b

Contains(s, sub) ==
    \E i \in 1..(Len(s) - Len(sub) + 1) : SubSeq(s, i, i + Len(sub) - 1) = sub

Range(s) == {s[i] : i \in 1..Len(s)}

\* Length of the longest common prefix of two flat strings, counted from k.
RECURSIVE PrefixFrom(_, _, _)
PrefixFrom(a, b, k) ==
    IF k < Len(a) /\ k < Len(b) /\ a[k + 1] = b[k + 1]
    THEN PrefixFrom(a, b, k + 1) ELSE k

CommonPrefix(a, b) == PrefixFrom(a, b, 0)

\* Length of the longest common suffix that does not overlap the first p
\* characters of either string, counted from k.
RECURSIVE SuffixFrom(_, _, _, _)
SuffixFrom(a, b, p, k) ==
    IF k < Len(a) - p /\ k < Len(b) - p /\ a[Len(a) - k] = b[Len(b) - k]
    THEN SuffixFrom(a, b, p, k + 1) ELSE k

CommonSuffix(a, b, p) == SuffixFrom(a, b, p, 0)

\* fuzzy_equal(a, b, ratio): similarity of a and b, in percent, is >= ratio.
fuzzy_equal(a, b, ratio) ==
    \E fa \in {Flat(a)}, fb \in {Flat(b)} :
        \E p \in {CommonPrefix(fa, fb)} :
            LET m == p + CommonSuffix(fa, fb, p)
            IN  IF Len(fa) + Len(fb) = 0 THEN TRUE
                ELSE 2 * m * 100 >= ratio * (Len(fa) + Len(fb))

\* diff(a, b): the lines of a that are not in b, and the lines of b that are
\* not in a, in their order.
diff(a, b) ==
    << SelectSeq(a, LAMBDA l : l \notin Range(b)),
       SelectSeq(b, LAMBDA l : l \notin Range(a)) >>

\* ------------------------------------------------------------------- URLs
\* A URL is <<directory, filename>>.
get_domain_path(u) == u[1]
normalize_path(u) == u[1]
\* The directories of the site: /x/ and /y/, and the directories a crawl
\* walks through one after the other.
SweepDirs ==
    << "/d01/", "/d02/", "/d03/", "/d04/", "/d05/", "/d06/", "/d07/", "/d08/",
       "/d09/", "/d10/", "/d11/", "/d12/", "/d13/", "/d14/", "/d15/", "/d16/",
       "/d17/", "/d18/", "/d19/", "/d20/", "/d21/", "/d22/", "/d23/", "/d24/",
       "/d25/", "/d26/", "/d27/", "/d28/", "/d29/", "/d30/", "/d31/", "/d32/",
       "/d33/", "/d34/", "/d35/", "/d36/", "/d37/", "/d38/", "/d39/", "/d40/",
       "/d41/", "/d42/", "/d43/", "/d44/", "/d45/", "/d46/", "/d47/", "/d48/",
       "/d49/", "/d50/" >>
Paths == {"/x/", "/y/"} \cup Range(SweepDirs)

\* --------------------------------------------------- response fingerprint
EchoLine(name) == <<"@", name>>

\* Cleaning redacts the requested file name echoed in the page.
Clean(body, u) == SelectSeq(body, LAMBDA l : l # EchoLine(u[2]))

DocType(body) ==
    IF Flat(body) = <<>> THEN "empty"
    ELSE IF Flat(body)[1] = "h" THEN "html"
    ELSE "text"

FourOhFourResponse(r) ==
    [ url             |-> r.url,
      code            |-> r.code,
      doc_type        |-> DocType(Clean(r.body, r.url)),
      normalized_path |-> normalize_path(r.url),
      body            |-> Clean(r.body, r.url),
      diff            |-> None ]

\* ------------------------------------------------------------ basic rules
\* string_to_test in http_response: the marker occurs in the headers or in
\* the body.
InResponse(m, r) == Contains(Flat(r.body), m) \/ Contains(r.headers, m)

is_404_basic(r, cf) ==
    LET domain_path == get_domain_path(r.url)
    IN  IF domain_path \in cf.always_404 THEN TRUE
        ELSE IF domain_path \in cf.never_404 THEN FALSE
        ELSE IF cf.string_match_404 # <<>> /\ InResponse(cf.string_match_404, r) THEN TRUE
        ELSE IF r.code = 404 THEN TRUE
        ELSE IF r.code = 204 /\ r.msg = NO_CONTENT_MSG /\ r.headers = <<>> THEN TRUE
        ELSE FALSE

\* The bodies are compared before the status codes.
is_404_complex_equality_first(query, known_404) ==
    IF known_404.body = query.body THEN "true"
    ELSE IF query.code \in NOT_404_RESPONSE_CODES /\ known_404.code = 404 THEN "false"
    ELSE IF query.doc_type # known_404.doc_type THEN "false"
    ELSE IF ~fuzzy_equal(known_404.body, query.body, IS_EQUAL_RATIO) THEN "false"
    ELSE IF StrLen(query.body) < MAX_FUZZY_LENGTH THEN "true"
    ELSE "large"

\* ---------------------------------------------------------- complex rules
\* The decision of _is_404_complex once known_404 is at hand: "true",
\* "false", or "large" when _handle_large_http_responses has to decide.
is_404_complex(query, known_404) ==
    IF query.code \in NOT_404_RESPONSE_CODES /\ known_404.code = 404 THEN "false"
    ELSE IF query.doc_type # known_404.doc_type THEN "false"
    ELSE IF known_404.body = query.body THEN "true"
    ELSE IF ~fuzzy_equal(known_404.body, query.body, IS_EQUAL_RATIO) THEN "false"
    ELSE IF StrLen(query.body) < MAX_FUZZY_LENGTH THEN "true"
    ELSE "large"

\* "if known_404_1.diff:" in place of "is not None".
DiffIsCached_truthy(known_404_1) ==
    known_404_1.diff # None /\ known_404_1.diff # Some(<<>>)

\* known_404_1.diff is not None
DiffIsCached(known_404_1) == known_404_1.diff # None

\* known_404_1.diff, _ = diff(known_404_1.body, known_404_2.body)
SetDiff(known_404_1, known_404_2) ==
    [known_404_1 EXCEPT !.diff = Some(diff(known_404_1.body, known_404_2.body)[1])]

\* diff_y taken from the known 404's side of the diff with the query.
handle_large_http_responses_known_side(query, known_404_1) ==
    LET diff_x == known_404_1.diff[1]
        diff_y == diff(known_404_1.body, query.body)[1]
    IN  IF diff_x = <<>> THEN "false"
        ELSE IF ~fuzzy_equal(diff_x, diff_y, IS_EQUAL_RATIO) THEN "false"
        ELSE "true"

\* The decision of _handle_large_http_responses once known_404_1.diff is set.
handle_large_http_responses(query, known_404_1) ==
    LET diff_x == known_404_1.diff[1]
        diff_y == diff(known_404_1.body, query.body)[2]
    IN  IF diff_x = <<>> THEN "false"
        ELSE IF ~fuzzy_equal(diff_x, diff_y, IS_EQUAL_RATIO) THEN "false"
        ELSE "true"

\* ------------------------------------------------------------------ inputs
H2  == Rep("h", 2)
C3  == Rep("c", 3)
H12 == Rep("h", 12)
M9  == Rep("m", 9)
M8  == Rep("m", 8)

X_a == <<"/x/", "a">>
X_b == <<"/x/", "b">>
Y_a == <<"/y/", "a">>
Y_b == <<"/y/", "b">>

Resp(u, c, m, h, b) == [url |-> u, code |-> c, msg |-> m, headers |-> h, body |-> b]

\* The responses handed to is_404.
Responses ==
    { Resp(X_a, 200, "OK", <<"k">>, <<H2, EchoLine("a")>>),       \* soft 404
      Resp(X_a, 404, "Not Found", <<"k">>, <<H2, EchoLine("a")>>), \* real 404
      Resp(X_b, 200, "OK", <<"k">>, <<H2, C3>>),                  \* content
      Resp(X_a, 200, "OK", <<"k">>, <<H12, M9 \o <<"9">>>>),      \* large, 404-like
      Resp(X_b, 200, "OK", <<"k">>, <<H12, M8 \o <<"w", "w">>>>), \* large, content
      Resp(X_b, 200, "OK", <<"k">>, <<H12, M9>>),                 \* short, similar
      Resp(X_a, 200, "OK", <<"k">>,                               \* short, similar,
           <<<<"t">> \o Rep("h", 10), M9 \o <<"0">>>>),            \* not html
      Resp(Y_a, 204, NO_CONTENT_MSG, <<>>, <<>>),                 \* synthetic 204
      Resp(Y_a, 204, "OK", <<>>, <<>>),                           \* a server's 204
      Resp(Y_a, 200, "OK", <<"!">>, <<H2, EchoLine("a")>>),       \* "!" in headers
      Resp(Y_b, 200, "OK", <<"k">>, <<H12, M9 \o <<"0">>>>) }     \* large, a page of
                                                                  \* the server

\* The user configurations (cf.cf) a scan may run under.
Conf(a, n, s) == [always_404 |-> a, never_404 |-> n, string_match_404 |-> s]
Configs ==
    { Conf({}, {}, <<>>),
      Conf({"/x/"}, {"/x/", "/y/"}, <<>>),
      Conf({}, {}, <<"!">>) }

\* ------------------------------------------------------- forced-404 prober
RandNames == <<"r1", "r2">>
Digit(name) == IF name = "r1" THEN "1" ELSE "2"

\* generate_404_url: a random file name under the directory of the response,
\* never one of the excluded URLs.
Generate404Url(r, exclude) ==
    LET dir == r.url[1]
        ok == {i \in 1..Len(RandNames) : <<dir, RandNames[i]>> \notin exclude}
    IN  <<dir, RandNames[CHOOSE i \in ok : \A j \in ok : i <= j]>>

\* What the server may answer to the forced-404 request for url404. Under
\* the directories of SweepDirs the server has one page for a missing file,
\* its soft 404 page.
ServerPages(url404) ==
    IF url404[1] \in Range(SweepDirs)
    THEN { Resp(url404, 200, "OK", <<"k">>, <<H2, EchoLine(url404[2])>>) }
    ELSE
    { Resp(url404, 404, "Not Found", <<"k">>, <<H2, EchoLine(url404[2])>>),
      Resp(url404, 200, "OK", <<"k">>, <<H2, EchoLine(url404[2])>>),
      Resp(url404, 200, "OK", <<"k">>, <<H12, M9 \o <<Digit(url404[2])>>>>),
      Resp(url404, 200, "OK", <<"k">>, <<H12, M9 \o <<"0">>>>) }

\* -------------------------------------------------------------------- state
VARIABLES
    cf,          \* the user configuration, read-only during a run
    instance,    \* Fingerprint404._instance: 0 is None, else the instance id
    nInst,       \* number of Fingerprint404 objects constructed so far
    responses,   \* responses[i]: _404_responses of instance i, a dictionary
                 \* from normalized paths to signatures
    memo,        \* the LRU of LRUCache404, least recently used first
    guard,       \* normalized paths PreventMultipleThreads has a call running for
    th,          \* per thread: position and locals of its is_404 call
    ncalls,      \* number of is_404 calls started
    hot,         \* hot[i]: keys of _404_responses of instance i held in memory,
                 \* least recently used first; the other keys are on disk
    probes,      \* probes[i]: forced-404 requests sent, per path (history)
    failed,      \* failed[i]: the paths a forced-404 request failed for (history)
    last         \* the call that finished most recently, if none started since

vars == <<cf, instance, nInst, responses, hot, memo, guard, th,
          ncalls, probes, failed, last>>

Instances == 1..MaxInst

IdleThread ==
    [ pc     |-> "idle",   \* idle, construct, fetch, guard, lookup, body,
                           \* probe1, decide, probe2, large, release, done
      resp   |-> None,     \* Some(http_response)
      self   |-> 0,        \* the instance is_404 runs on
      known  |-> None,     \* Some(known_404) once read from the store or stored
      res    |-> "none",   \* "true", "false" or "raise" once decided; a done
                           \* thread keeps the outcome until its next call
      nprobe |-> 0,        \* forced-404 requests this call sent
      ran    |-> FALSE,    \* the body of is_404 ran (no memo hit)
      hitby  |-> 0,        \* on a memo hit, the instance that recorded the entry
      pfail  |-> FALSE,    \* a forced-404 request of this call failed
      wrote  |-> FALSE,    \* this call wrote to _404_responses
      large  |-> FALSE,    \* _handle_large_http_responses decided
      b2b    |-> None ]    \* Some(result of the preceding call) when back to back

EmptyStore == [p \in {} |-> None]
NoneHot == <<>>
NoProbes == [p \in {} |-> 0]
NoFailure == {}

\* The number of forced-404 requests counted in n for path, and n with one
\* more of them.
Sent(n, path) == IF path \in DOMAIN n THEN n[path] ELSE 0
OneMore(n, path) ==
    [p \in DOMAIN n \cup {path} |-> IF p = path THEN Sent(n, path) + 1 ELSE n[p]]

InitWith(configs) ==
    /\ cf \in configs
    /\ instance = 0
    /\ nInst = 0
    /\ responses = [i \in Instances |-> EmptyStore]
    /\ hot = [i \in Instances |-> NoneHot]
    /\ memo = <<>>
    /\ guard = {}
    /\ th = [t \in Threads |-> IdleThread]
    /\ ncalls = 0
    /\ probes = [i \in Instances |-> NoProbes]
    /\ failed = [i \in Instances |-> NoFailure]
    /\ last = None

\* ----------------------------------------------------- recent-decision memo
MemoKey(r) == <<r.url, r.body>>

MemoIndex(m, k) ==
    LET hits == {i \in 1..Len(m) : m[i].key = k}
    IN  IF hits = {} THEN 0 ELSE CHOOSE i \in hits : TRUE

\* A hit moves the entry to the most recently used end.
MemoTouch(m, k) ==
    LET i == MemoIndex(m, k)
    IN  SelectSeq(m, LAMBDA e : e.key # k) \o <<m[i]>>

\* An insert evicts the least recently used entry when the memo is full.
MemoPut(m, k, v, i) ==
    LET rest == SelectSeq(m, LAMBDA e : e.key # k)
        all  == rest \o <<[key |-> k, val |-> v, by |-> i]>>
    IN  IF Len(all) > MemoCapacity THEN Tail(all) ELSE all

\* ------------------------------------------------------------ signature store
\* Every lookup is a miss.
StoreGet_miss(st, key) == None

\* The signature the dictionary st holds under key, if any.
Stored(st, key) == IF key \in DOMAIN st THEN Some(st[key]) ELSE None

\* self._404_responses.get(key) and self._404_responses[key] = sig
StoreGet(st, key) == IF key \in DOMAIN st THEN Some(st[key]) ELSE None
StorePut(st, key, sig) ==
    [p \in DOMAIN st \cup {key} |-> IF p = key THEN sig ELSE st[p]]

\* The keys held in memory once key was read or written: key becomes the
\* most recently used one, and the least recently used key leaves the memory
\* when it holds more than MAX_404_IN_MEMORY keys.
Admit(h, key) ==
    LET all == SelectSeq(h, LAMBDA k : k # key) \o <<key>>
    IN  IF Len(all) > MAX_404_IN_MEMORY THEN Tail(all) ELSE all

\* The keys that leave the memory when key is read or written.
Evicted(h, key) == (Range(h) \cup {key}) \ Range(Admit(h, key))

\* The entries that leave the memory are lost.
Demote_dropped(st, victims) ==
    [p \in DOMAIN st \ victims |-> st[p]]

\* The entries that leave the memory go to the back-end on disk, where a
\* lookup still finds them.
Demote(st, victims) == st

\* The store once get(key) was served from a tier that holds key: the entry
\* is promoted to the memory.
AfterGet(st, h, key) == Demote(st, Evicted(h, key))

\* The known 404 is stored under another key.
SaveKnown404_other_key(st, key, known_404) ==
    StorePut(st, CHOOSE p \in Paths : p # key, known_404)

\* line 406: self._404_responses[query.normalized_path] = known_404
SaveKnown404(st, key, known_404) == StorePut(st, key, known_404)

\* The signature with its diff is written back under another key.
SaveDiff_other_key(st, key, known_404_1) ==
    StorePut(st, CHOOSE p \in Paths : p # key, known_404_1)

\* line 335: self._404_responses[query.normalized_path] = known_404_1
SaveDiff(st, key, known_404_1) == StorePut(st, key, known_404_1)

\* The error is caught and a signature without content is stored for the path.
StoreAfterFailedProbe_placeholder(st, key) ==
    StorePut(st, key, FourOhFourResponse(Resp(<<key, "r1">>, 0, "", <<>>, <<>>)))

\* lines 402-406: send_request_generate_404 raises, line 406 is not reached
\* and the store stays as it is.
StoreAfterFailedProbe(st, key) == st

\* ------------------------------------------------------------------ actions
\* A Fingerprint404 object lives while it is _instance or a call on it is
\* running or has just handed its outcome to the caller; after that the
\* object, with its store, is garbage.  x is responses, hot, probes or failed.
IsLive(cur, thr, i) ==
    i = cur \/ \E t \in Threads : thr[t].pc # "idle" /\ thr[t].self = i

Live(cur, thr, x, empty) ==
    [i \in Instances |-> IF IsLive(cur, thr, i) THEN x[i] ELSE empty]

RespOf(t) == th[t].resp[1]
PathOf(t) == normalize_path(RespOf(t).url)
InFlight(t) == th[t].pc \notin {"idle", "done"}

\* The path is let go only when the call returns a value.
ReleaseGuard_unless_raised(g, p, result) ==
    IF result = "raise" THEN g ELSE g \ {p}

\* PreventMultipleThreads lets go of the path on every way out of the call.
ReleaseGuard(g, p, result) == g \ {p}

\* The thread has entered PreventMultipleThreads and not left it yet.
Holding(t) ==
    th[t].pc \in {"lookup", "body", "probe1", "decide", "probe2", "large", "release"}

\* is_404 returns result: LRUCache404 records it, and the call is on its way
\* out through PreventMultipleThreads.  thr carries the locals of the thread.
ReturnValue(t, thr, result) ==
    /\ th' = [th EXCEPT ![t] = [thr EXCEPT !.pc = "release", !.res = result,
                                           !.known = None]]
    /\ memo' = MemoPut(memo, MemoKey(RespOf(t)), result, thr.self)
    /\ UNCHANGED <<cf, instance, nInst, responses, hot, guard, ncalls,
                   probes, failed, last>>

\* The module-level is_404(http_response): fingerprint_404_singleton() reads
\* _instance; when it is None the thread goes on to construct one.
Call(t, r) ==
    /\ th[t].pc \in {"idle", "done"}
    /\ ncalls' = ncalls + 1
    /\ th' = [u \in Threads |->
                IF u = t
                THEN [IdleThread EXCEPT
                        !.pc = IF instance = 0 THEN "construct" ELSE "guard",
                        !.resp = Some(r),
                        !.self = instance,
                        !.b2b = IF /\ last # None
                                   /\ last[1].key = MemoKey(r)
                                   /\ \A v \in Threads \ {t} : ~InFlight(v)
                                THEN Some(last[1].res) ELSE None]
                ELSE IF InFlight(u) THEN [th[u] EXCEPT !.b2b = None]
                ELSE th[u]]
    /\ last' = None
    /\ responses' = Live(instance, th', responses, EmptyStore)
    /\ hot' = Live(instance, th', hot, NoneHot)
    /\ probes' = Live(instance, th', probes, NoProbes)
    /\ failed' = Live(instance, th', failed, NoFailure)
    /\ UNCHANGED <<cf, instance, nInst, memo, guard>>

\* line 412: Fingerprint404._instance = Fingerprint404() in a thread that saw
\* None at line 411.
Construct(t) ==
    /\ th[t].pc = "construct"
    /\ nInst' = nInst + 1
    /\ instance' = nInst + 1
    /\ th' = [th EXCEPT ![t].pc = "fetch"]
    /\ responses' = Live(nInst + 1, th', responses, EmptyStore)
    /\ hot' = Live(nInst + 1, th', hot, NoneHot)
    /\ probes' = Live(nInst + 1, th', probes, NoProbes)
    /\ failed' = Live(nInst + 1, th', failed, NoFailure)
    /\ UNCHANGED <<cf, memo, guard, ncalls, last>>

\* line 414: return Fingerprint404._instance, read again after line 412: the
\* thread goes on with the object that is _instance now, which another
\* thread may have assigned since.
ReturnInstance(t) ==
    /\ th[t].pc = "fetch"
    /\ th' = [th EXCEPT ![t].pc = "guard", ![t].self = instance]
    /\ UNCHANGED <<cf, instance, nInst, responses, hot, memo, guard,
                   ncalls, probes, failed, last>>

\* PreventMultipleThreads on the way in: the call waits while another call
\* on its normalized path is running (when guarded), then takes the path.
Enter(t, guarded) ==
    /\ th[t].pc = "guard"
    /\ guarded => PathOf(t) \notin guard
    /\ guard' = guard \cup {PathOf(t)}
    /\ th' = [th EXCEPT ![t].pc = "lookup"]
    /\ UNCHANGED <<cf, instance, nInst, responses, hot, memo, ncalls,
                   probes, failed, last>>

\* is_404 without @PreventMultipleThreads.
PreventMultipleThreads_absent(t) == Enter(t, FALSE)

\* line 71: @PreventMultipleThreads
PreventMultipleThreads(t) == Enter(t, TRUE)

\* LRUCache404 on the way in: a response found in the memo (when memoised)
\* is answered from it and becomes its most recently used entry; otherwise
\* the body of is_404 runs.
Lookup(t, memoised) ==
    /\ th[t].pc = "lookup"
    /\ LET n == IF memoised THEN MemoIndex(memo, MemoKey(RespOf(t))) ELSE 0
       IN  IF n # 0
           THEN /\ th' = [th EXCEPT ![t].pc = "release",
                                    ![t].res = memo[n].val,
                                    ![t].hitby = memo[n].by]
                /\ memo' = MemoTouch(memo, MemoKey(RespOf(t)))
           ELSE /\ th' = [th EXCEPT ![t].pc = "body", ![t].ran = TRUE]
                /\ UNCHANGED memo
    /\ UNCHANGED <<cf, instance, nInst, responses, hot, guard, ncalls,
                   probes, failed, last>>

\* is_404 without @LRUCache404.
LRUCache404_absent(t) == Lookup(t, FALSE)

\* line 72: @LRUCache404
LRUCache404(t) == Lookup(t, TRUE)

\* The body of is_404 up to its first operation on shared state: the basic
\* rules decide true and the result is recorded (lines 98-99); or the
\* signature of the path is read from the store (line 398), which makes its
\* key the most recently used one; or the store has none and the first
\* forced-404 request is sent (line 402).
is_404(t) ==
    /\ th[t].pc = "body"
    /\ LET r == RespOf(t)
           i == th[t].self
           known_404 == StoreGet(responses[i], PathOf(t))
       IN  IF is_404_basic(r, cf)
           THEN ReturnValue(t, th[t], "true")
           ELSE IF known_404 # None
           THEN /\ th' = [th EXCEPT ![t].pc = "decide", ![t].known = known_404]
                /\ responses' = [responses EXCEPT
                                    ![i] = AfterGet(@, hot[i], PathOf(t))]
                /\ hot' = [hot EXCEPT ![i] = Admit(@, PathOf(t))]
                /\ UNCHANGED <<cf, instance, nInst, memo, guard, ncalls,
                               probes, failed, last>>
           ELSE /\ th' = [th EXCEPT ![t].pc = "probe1", ![t].nprobe = @ + 1]
                /\ probes' = [probes EXCEPT ![i] = OneMore(@, PathOf(t))]
                /\ UNCHANGED <<cf, instance, nInst, responses, hot, memo,
                               guard, ncalls, failed, last>>

\* The first forced-404 request (line 402) is answered and the signature is
\* stored (line 406).
get_404_response(t) ==
    /\ th[t].pc = "probe1"
    /\ \E page \in ServerPages(Generate404Url(RespOf(t), {})) :
         LET known_404 == FourOhFourResponse(page)
             i == th[t].self
         IN  /\ th' = [th EXCEPT ![t].pc = "decide", ![t].wrote = TRUE,
                                 ![t].known = Some(known_404)]
             /\ responses' = [responses EXCEPT ![i] =
                    Demote(SaveKnown404(@, PathOf(t), known_404),
                           Evicted(hot[i], PathOf(t)))]
             /\ hot' = [hot EXCEPT ![i] = Admit(@, PathOf(t))]
    /\ UNCHANGED <<cf, instance, nInst, memo, guard, ncalls, probes, failed,
                   last>>

\* _is_404_complex from line 188 on, with known_404 at hand: the rules decide
\* and the result is recorded; or the body is large and similar, and then
\* _handle_large_http_responses decides from the diff of the signature (line
\* 313) or, when it has none, sends the tie-break request (line 329).
Decide(t) ==
    /\ th[t].pc = "decide"
    /\ LET query == FourOhFourResponse(RespOf(t))
           known_404 == th[t].known[1]
           d     == is_404_complex(query, known_404)
           thl   == [th[t] EXCEPT !.large = TRUE]
       IN  IF d # "large" THEN ReturnValue(t, th[t], d)
           ELSE IF DiffIsCached(known_404)
           THEN ReturnValue(t, thl, handle_large_http_responses(query, known_404))
           ELSE /\ th' = [th EXCEPT ![t] = [thl EXCEPT !.pc = "probe2",
                                                       !.nprobe = @ + 1]]
                /\ probes' = [probes EXCEPT
                                 ![th[t].self] = OneMore(@, PathOf(t))]
                /\ UNCHANGED <<cf, instance, nInst, responses, hot, memo,
                               guard, ncalls, failed, last>>

\* The tie-break request (line 329) is answered: the diff is computed and the
\* signature is written back with it (lines 334-335).
handle_large_probe(t) ==
    /\ th[t].pc = "probe2"
    /\ LET known_404 == th[t].known[1]
           i == th[t].self
       IN  \E page \in ServerPages(Generate404Url(RespOf(t), {known_404.url})) :
             LET known_404_1 == SetDiff(known_404, FourOhFourResponse(page))
             IN  /\ th' = [th EXCEPT ![t].pc = "large", ![t].wrote = TRUE,
                                     ![t].known = Some(known_404_1)]
                 /\ responses' = [responses EXCEPT ![i] =
                        Demote(SaveDiff(@, PathOf(t), known_404_1),
                               Evicted(hot[i], PathOf(t)))]
                 /\ hot' = [hot EXCEPT ![i] = Admit(@, PathOf(t))]
    /\ UNCHANGED <<cf, instance, nInst, memo, guard, ncalls, probes, failed,
                   last>>

\* _handle_large_http_responses from line 337 on, after the diff was written:
\* it decides and the result is recorded.
DecideLarge(t) ==
    /\ th[t].pc = "large"
    /\ ReturnValue(t, th[t],
                   handle_large_http_responses(FourOhFourResponse(RespOf(t)),
                                               th[t].known[1]))

\* A forced-404 request fails: send_request_generate_404 raises (a transport
\* error, or no opener set on the instance), nothing is stored, nothing is
\* recorded in the memo, and the exception is on its way out of is_404.
ProbeFails(t) ==
    /\ th[t].pc \in {"probe1", "probe2"}
    /\ th' = [th EXCEPT ![t].pc = "release", ![t].res = "raise",
                        ![t].pfail = TRUE, ![t].known = None]
    /\ failed' = [failed EXCEPT ![th[t].self] = @ \cup {PathOf(t)}]
    /\ responses' = [responses EXCEPT
                        ![th[t].self] = StoreAfterFailedProbe(@, PathOf(t))]
    /\ UNCHANGED <<cf, instance, nInst, hot, memo, guard, ncalls, probes, last>>

\* PreventMultipleThreads on the way out, with a value or with an
\* exception: it lets go of the path and the call is over.
Return(t) ==
    /\ th[t].pc = "release"
    /\ th' = [th EXCEPT ![t].pc = "done"]
    /\ guard' = ReleaseGuard(guard, PathOf(t), th[t].res)
    /\ last' = IF th[t].res = "raise" THEN None
               ELSE Some([key |-> MemoKey(RespOf(t)), res |-> th[t].res])
    /\ UNCHANGED <<cf, instance, nInst, responses, hot, memo, ncalls,
                   probes, failed>>

\* fingerprint_404_singleton(cleanup=True)
Reset ==
    /\ nInst + Cardinality({t \in Threads : th[t].pc = "construct"}) < MaxInst
    /\ nInst' = nInst + 1
    /\ instance' = nInst + 1
    /\ responses' = Live(nInst + 1, th, responses, EmptyStore)
    /\ hot' = Live(nInst + 1, th, hot, NoneHot)
    /\ probes' = Live(nInst + 1, th, probes, NoProbes)
    /\ failed' = Live(nInst + 1, th, failed, NoFailure)
    /\ UNCHANGED <<cf, memo, guard, th, ncalls, last>>

\* Concurrent runs: two threads call is_404 on two large responses that share
\* the path /x/ and on one response of /y/, under the default configuration;
\* a reset may come at any time, also while calls are running.
ConcResponses ==
    { r \in Responses :
        \/ r.url[1] = "/x/" /\ StrLen(r.body) >= MAX_FUZZY_LENGTH
        \/ r.url = Y_a /\ r.code = 200 }

Init == InitWith({Conf({}, {}, <<>>)})

Next ==
    \/ \E t \in Threads, r \in ConcResponses : ncalls < MaxConcCalls /\ Call(t, r)
    \/ \E t \in Threads : Construct(t)
    \/ \E t \in Threads : ReturnInstance(t)
    \/ \E t \in Threads : PreventMultipleThreads(t)
    \/ \E t \in Threads : LRUCache404(t)
    \/ \E t \in Threads : is_404(t)
    \/ \E t \in Threads : get_404_response(t)
    \/ \E t \in Threads : Decide(t)
    \/ \E t \in Threads : handle_large_probe(t)
    \/ \E t \in Threads : DecideLarge(t)
    \/ \E t \in Threads : ProbeFails(t)
    \/ \E t \in Threads : Return(t)
    \/ Reset

Spec == Init /\ [][Next]_vars

\* Sequential runs: one caller, under every configuration, calls is_404 on
\* the responses shorter than MAX_FUZZY_LENGTH and on a large one, and
\* resets between calls.
SeqResponses ==
    { r \in Responses : StrLen(r.body) < MAX_FUZZY_LENGTH \/ r.url = X_a }

SeqInit == InitWith(Configs)

SeqNext ==
    \/ \E r \in SeqResponses : ncalls < MaxCalls /\ Call(1, r)
    \/ Construct(1)
    \/ ReturnInstance(1)
    \/ PreventMultipleThreads(1)
    \/ LRUCache404(1)
    \/ is_404(1)
    \/ get_404_response(1)
    \/ Decide(1)
    \/ handle_large_probe(1)
    \/ DecideLarge(1)
    \/ ProbeFails(1)
    \/ Return(1)
    \/ ~InFlight(1) /\ Reset

SeqSpec == SeqInit /\ [][SeqNext]_vars

\* Sequential runs over every response: one caller, under every
\* configuration, calls is_404 on any of the responses, so that every step
\* of the complex rules decides some call, and resets between calls.
OrderResponses == Responses

OrderNext ==
    \/ \E r \in OrderResponses : ncalls < MaxOrderCalls /\ Call(1, r)
    \/ Construct(1)
    \/ ReturnInstance(1)
    \/ PreventMultipleThreads(1)
    \/ LRUCache404(1)
    \/ is_404(1)
    \/ get_404_response(1)
    \/ Decide(1)
    \/ handle_large_probe(1)
    \/ DecideLarge(1)
    \/ ProbeFails(1)
    \/ Return(1)
    \/ ~InFlight(1) /\ Reset

OrderSpec == SeqInit /\ [][OrderNext]_vars

\* Concurrent runs of one scan in which every thread goes on running and
\* every forced-404 request is answered or fails: two threads call is_404 on
\* the large responses of the path /x/.
FairResponses ==
    { r \in Responses : r.url[1] = "/x/" /\ StrLen(r.body) >= MAX_FUZZY_LENGTH }

FairNext ==
    \/ \E t \in Threads, r \in FairResponses : ncalls < MaxConcCalls /\ Call(t, r)
    \/ \E t \in Threads : Construct(t)
    \/ \E t \in Threads : ReturnInstance(t)
    \/ \E t \in Threads : PreventMultipleThreads(t)
    \/ \E t \in Threads : LRUCache404(t)
    \/ \E t \in Threads : is_404(t)
    \/ \E t \in Threads : get_404_response(t)
    \/ \E t \in Threads : Decide(t)
    \/ \E t \in Threads : handle_large_probe(t)
    \/ \E t \in Threads : DecideLarge(t)
    \/ \E t \in Threads : ProbeFails(t)
    \/ \E t \in Threads : Return(t)

\* A step of the is_404 call of thread t.
Step(t) ==
    \/ Construct(t)
    \/ ReturnInstance(t)
    \/ PreventMultipleThreads(t)
    \/ LRUCache404(t)
    \/ is_404(t)
    \/ get_404_response(t)
    \/ Decide(t)
    \/ handle_large_probe(t)
    \/ DecideLarge(t)
    \/ ProbeFails(t)
    \/ Return(t)

FairSpec ==
    /\ Init /\ [][FairNext]_vars
    /\ \A t \in Threads : WF_vars(Step(t))

\* Concurrent runs of one scan, without reset: two threads call is_404 on a
\* short and on a large response of the path /x/.
ScanResponses ==
    { r \in Responses :
        /\ r.url[1] = "/x/" /\ r.code = 200
        /\ \/ r.url = X_a /\ StrLen(r.body) >= MAX_FUZZY_LENGTH
           \/ r.url = X_b /\ StrLen(r.body) <= 5 }

ScanNext ==
    \/ \E t \in Threads, r \in ScanResponses : ncalls < MaxScanCalls /\ Call(t, r)
    \/ \E t \in Threads : Construct(t)
    \/ \E t \in Threads : ReturnInstance(t)
    \/ \E t \in Threads : PreventMultipleThreads(t)
    \/ \E t \in Threads : LRUCache404(t)
    \/ \E t \in Threads : is_404(t)
    \/ \E t \in Threads : get_404_response(t)
    \/ \E t \in Threads : Decide(t)
    \/ \E t \in Threads : handle_large_probe(t)
    \/ \E t \in Threads : DecideLarge(t)
    \/ \E t \in Threads : ProbeFails(t)
    \/ \E t \in Threads : Return(t)

ScanSpec == Init /\ [][ScanNext]_vars

\* A sequential crawl of one scan: is_404 is called on a response of each
\* directory of SweepDirs in turn, then on the short responses of /x/a, and
\* then on the directories again from the first one on. The crawl visits more
\* paths than the memory of the signature store holds. At most
\* MaxSweepFailures of its forced-404 requests fail.
SweepOrder == SweepDirs \o <<"/x/">>

SweepResponses(k) ==
    LET dir == SweepOrder[((k - 1) % Len(SweepOrder)) + 1]
    IN  IF dir = "/x/"
        THEN { r \in Responses : r.url = X_a /\ StrLen(r.body) <= 5 }
        ELSE { Resp(<<dir, "a">>, 200, "OK", <<"k">>, <<H2, EchoLine("a")>>) }

SweepInit == InitWith({Conf({}, {}, <<>>)})

SweepNext ==
    \/ \E r \in SweepResponses(ncalls + 1) : ncalls < MaxSweepCalls /\ Call(1, r)
    \/ Construct(1)
    \/ ReturnInstance(1)
    \/ PreventMultipleThreads(1)
    \/ LRUCache404(1)
    \/ is_404(1)
    \/ get_404_response(1)
    \/ Decide(1)
    \/ Cardinality(UNION {failed[i] : i \in Instances}) < MaxSweepFailures
          /\ ProbeFails(1)
    \/ Return(1)

SweepSpec == SweepInit /\ [][SweepNext]_vars

TypeOK ==
    /\ instance \in 0..MaxInst
    /\ nInst \in 0..MaxInst
    /\ Len(memo) <= MemoCapacity
    /\ guard \subseteq Paths
    /\ \A t \in Threads : th[t].res \in {"none", "true", "false", "raise"}

\* ------------------------------------------------------------------ claims
Done(t) == th[t].pc = "done"
Returned(t) == Done(t) /\ th[t].res \in {"true", "false"}
Probing(t) == th[t].pc \in {"probe1", "probe2"}

\* C1: a call on a response whose domain_path is in always_404 returns true;
\* otherwise, if the domain_path is in never_404, it returns false.
C1_BasicRulesPrecedence ==
    \A t \in Threads :
        Returned(t) =>
            LET dp == get_domain_path(RespOf(t).url)
            IN  /\ dp \in cf.always_404 => th[t].res = "true"
                /\ dp \notin cf.always_404 /\ dp \in cf.never_404
                      => th[t].res = "false"

\* C2: a call in which a forced-404 request failed and no basic rule asserted
\* 404 does not raise, it returns false.
C2_ProbeFailureReturnsFalse ==
    \A t \in Threads :
        Done(t) /\ th[t].pfail /\ ~is_404_basic(RespOf(t), cf)
            => th[t].res = "false"

\* C3: at most one forced-404 request is outstanding for a normalized path.
C3_OneOutstandingProbePerPath ==
    \A p \in {PathOf(t) : t \in {u \in Threads : Probing(u)}} :
        Cardinality({t \in Threads : Probing(t) /\ PathOf(t) = p}) <= 1

\* A second call on the path waits while the first one has its request out.
C3_Witness ==
    \E t, u \in Threads :
        /\ t # u
        /\ Probing(t)
        /\ th[u].pc = "guard"
        /\ PathOf(u) = PathOf(t)
        /\ RespOf(u) # RespOf(t)

\* The normalized paths classifier i holds a signature for, sent a
\* forced-404 request for or runs a call on; it has no record of any other.
PathsOf(i) ==
    DOMAIN responses[i] \cup DOMAIN probes[i]
        \cup {PathOf(t) : t \in {u \in Threads : InFlight(u) /\ th[u].self = i}}

\* The tie-break of path p was taken on instance i.
TieBreakTaken(i, p) ==
    \/ \E t \in Threads : th[t].pc = "probe2" /\ th[t].self = i /\ PathOf(t) = p
    \/ Stored(responses[i], p) # None /\ Stored(responses[i], p)[1].diff # None

\* The forced-404 requests the classifiers sent for path p, all together.
RECURSIVE SentByAll(_, _)
SentByAll(I, p) ==
    IF I = {} THEN 0
    ELSE LET i == CHOOSE j \in I : TRUE
         IN  Sent(probes[i], p) + SentByAll(I \ {i}, p)

\* C4: while no forced-404 request failed, the calls on the responses of one
\* normalized path send at most one request for it in total, at most two
\* once a call took the large-body tie-break, and then exactly two.
C4_SingleFlight ==
    \A p \in UNION {PathsOf(i) : i \in Instances} :
        (\A i \in Instances : p \notin failed[i]) =>
            LET tie_break == \E i \in Instances : TieBreakTaken(i, p)
            IN  /\ SentByAll(Instances, p) <= 2
                /\ ~tie_break => SentByAll(Instances, p) <= 1
                /\ tie_break => SentByAll(Instances, p) = 2

\* C5: a call that directly follows a call with the same (url, body) returns
\* the same value, sends no forced-404 request and does not classify again.
C5_MemoConsistency ==
    \A t \in Threads :
        Done(t) /\ th[t].b2b # None =>
            /\ th[t].res = th[t].b2b[1]
            /\ th[t].nprobe = 0
            /\ ~th[t].ran

C5_Witness ==
    \E t \in Threads :
        Done(t) /\ th[t].b2b # None /\ th[t].res = "true" /\ th[t].hitby # 0

\* C6: after a reset nothing of the earlier scan is observable: no call is
\* answered from a memo entry recorded on another classifier instance.
C6_ResetDiscardsState ==
    \A t \in Threads :
        Done(t) /\ th[t].hitby # 0 => th[t].hitby = th[t].self

\* C7: once the signature of a path has its diff set (also to the empty
\* string), the signature stays as it is and no further forced-404 request
\* is sent for the path, as long as the classifier lives.
C7_DiffCacheIdempotent ==
    [][\A i \in Instances : \A p \in DOMAIN responses[i] :
          ( /\ Stored(responses[i], p) # None
            /\ Stored(responses[i], p)[1].diff # None
            /\ IsLive(instance', th', i) )
             => /\ Stored(responses'[i], p) = Stored(responses[i], p)
                /\ Sent(probes'[i], p) = Sent(probes[i], p)]_vars

\* A large-body classification was decided from the cached diff.
C7_Witness ==
    \E t \in Threads :
        /\ Returned(t) /\ th[t].large /\ th[t].nprobe = 0
        /\ Stored(responses[th[t].self], PathOf(t))[1].diff = Some(<<>>)

\* What is_404 computes on r from the configuration and the store st, when
\* that needs no forced-404 request; "open" otherwise.
Expected(r, st) ==
    LET query == FourOhFourResponse(r)
        known == Stored(st, query.normalized_path)
    IN  IF is_404_basic(r, cf) THEN "true"
        ELSE IF known = None THEN "open"
        ELSE IF is_404_complex(query, known[1]) # "large"
        THEN is_404_complex(query, known[1])
        ELSE IF known[1].diff = None THEN "open"
        ELSE handle_large_http_responses(query, known[1])

\* C8: the value a call returns is the one the response and the store
\* contents determine, whatever calls came before.
C8_Determinism ==
    \A t \in Threads :
        Returned(t) /\ Expected(RespOf(t), responses[th[t].self]) # "open"
            => th[t].res = Expected(RespOf(t), responses[th[t].self])

\* C9: a call on a response for which a basic rule decides true returns
\* true, sends no forced-404 request and does not write to the store.
C9_BasicTrueNoProbe ==
    \A t \in Threads :
        Done(t) /\ is_404_basic(RespOf(t), cf) =>
            /\ th[t].res = "true"
            /\ th[t].nprobe = 0
            /\ ~th[t].wrote

\* C10: a call on a response on which no basic rule fires and whose doc_type
\* differs from the one of the known 404 of its path returns false and sends
\* no tie-break request.
C10_DocTypeAsymmetry ==
    \A t \in Threads :
        LET known == Stored(responses[th[t].self], PathOf(t))
        IN  ( /\ Returned(t)
              /\ ~is_404_basic(RespOf(t), cf)
              /\ known # None
              /\ FourOhFourResponse(RespOf(t)).doc_type # known[1].doc_type )
            => th[t].res = "false" /\ ~th[t].large

\* C11: a forced-404 request that fails on a store miss leaves the store as
\* it is, with no signature for the path; and the next call on the path that
\* gets to the complex rules sends a forced-404 request again.
C11_FailedProbeStoresNothing ==
    [][\A t \in Threads :
         LET i == th[t].self
             p == PathOf(t)
         IN  /\ ( /\ th[t].pc = "probe1"
                  /\ th'[t].pc = "release" /\ th'[t].res = "raise" )
                => /\ responses' = responses
                   /\ Stored(responses'[i], p) = None
             /\ ( /\ th[t].pc = "body" /\ th'[t].pc # "body"
                  /\ ~is_404_basic(RespOf(t), cf)
                  /\ p \in failed[i] /\ Stored(responses[i], p) = None )
                => /\ th'[t].pc = "probe1"
                   /\ Sent(probes'[i], p) = Sent(probes[i], p) + 1]_vars

\* After a failed request on a store miss, a later call on the path has its
\* own request out.
C11_Witness ==
    \E t \in Threads :
        /\ th[t].pc = "probe1"
        /\ PathOf(t) \in failed[th[t].self]
        /\ Stored(responses[th[t].self], PathOf(t)) = None

\* C12: the guard of a path is held only while a call on that path is
\* running, whichever way the calls before ended, and every call comes to
\* its end when every forced-404 request is answered or fails.
C12_GuardReleased ==
    /\ [](\A p \in guard : \E t \in Threads : Holding(t) /\ PathOf(t) = p)
    /\ \A t \in Threads : InFlight(t) ~> Done(t)

\* A call on a path was admitted after a call on the same path had raised.
C12_Witness ==
    \E t, u \in Threads :
        /\ t # u
        /\ Done(t) /\ th[t].res = "raise"
        /\ Probing(u) /\ PathOf(u) = PathOf(t)

\* C13: the memo is looked up before the guard is taken: a call whose
\* response is in the memo returns at once, also while another call on its
\* normalized path is running.
C13_MemoBeforeGuard ==
    \A t \in Threads :
        th[t].pc = "guard" /\ MemoIndex(memo, MemoKey(RespOf(t))) # 0
            => ENABLED PreventMultipleThreads(t)

\* C14: the in-memory tier of the signature store never holds more than
\* MAX_404_IN_MEMORY entries, and a signature that was stored is still found
\* by a lookup of its key, as long as the classifier lives.
C14_StoreBound ==
    [][\A i \in Instances :
         /\ Len(hot'[i]) <= MAX_404_IN_MEMORY
         /\ Range(hot'[i]) \subseteq DOMAIN responses'[i]
         /\ \A p \in Paths :
              Stored(responses[i], p) # None /\ IsLive(instance', th', i)
                 => StoreGet(responses'[i], p) # None]_vars

\* A call was decided from a signature that had left the full memory: the
\* lookup brought it back and the signature of another path went to disk.
C14_Witness ==
    \E t \in Threads, q \in Paths :
        /\ Returned(t) /\ th[t].ran /\ th[t].nprobe = 0
        /\ Len(hot[th[t].self]) = MAX_404_IN_MEMORY
        /\ ~is_404_basic(RespOf(t), cf)
        /\ q # PathOf(t)
        /\ PathOf(t) \in Range(hot[th[t].self])
        /\ Stored(responses[th[t].self], q) # None
        /\ q \notin Range(hot[th[t].self])

\* C15: the url, code, body and normalized_path of a stored signature never
\* change as long as the classifier lives; its diff changes at most once,
\* from absent to a value, in the tie-break of a call that holds the guard of
\* the path.
C15_SignatureImmutable ==
    [][\A i \in Instances : \A p \in DOMAIN responses[i] :
         Stored(responses[i], p) # None /\ IsLive(instance', th', i) =>
            /\ Stored(responses'[i], p) # None
            /\ LET old == Stored(responses[i], p)[1]
                   new == Stored(responses'[i], p)[1]
               IN  /\ new.url = old.url
                   /\ new.code = old.code
                   /\ new.body = old.body
                   /\ new.normalized_path = old.normalized_path
                   /\ \/ new.diff = old.diff
                      \/ /\ old.diff = None /\ new.diff # None
                         /\ p \in guard
                         /\ \E t \in Threads :
                              /\ th[t].pc = "probe2" /\ th[t].self = i
                              /\ PathOf(t) = p /\ th'[t].pc = "large"]_vars

\* A second large response of a path was decided from the stored signature
\* and the diff an earlier call had set on it.
C15_Witness ==
    \E t \in Threads :
        LET known == Stored(responses[th[t].self], PathOf(t))
        IN  /\ Returned(t) /\ th[t].ran /\ th[t].large /\ th[t].nprobe = 0
            /\ known # None
            /\ known[1].diff \notin {None, Some(<<>>)}

\* C16: in a scan, between two resets, every caller gets the same classifier
\* instance, also when the first calls come from several threads at once.
C16_OneInstancePerScan ==
    \A t, u \in Threads :
        th[t].self # 0 /\ th[u].self # 0 => th[t].self = th[u].self

\* C17: a call that reached the large-body tie-break returns false when the
\* diff of the signature is the empty string, and otherwise returns whether
\* that diff is fuzzy-equal to the query-only part of the diff of the
\* signature's body and the query's body.
C17_TieBreakResult ==
    \A t \in Threads :
        Returned(t) /\ th[t].large =>
            LET sig    == Stored(responses[th[t].self], PathOf(t))[1]
                query  == FourOhFourResponse(RespOf(t))
                diff_y == diff(sig.body, query.body)[2]
            IN  /\ sig.diff # None
                /\ th[t].res = "true" <=>
                      /\ sig.diff # Some(<<>>)
                      /\ fuzzy_equal(sig.diff[1], diff_y, IS_EQUAL_RATIO)

\* A call found the signature of its path, sent the tie-break request itself
\* and returned true.
C17_Witness ==
    \E t \in Threads :
        /\ Returned(t) /\ th[t].large /\ th[t].res = "true"
        /\ th[t].nprobe = 1 /\ th[t].wrote

\* The complex rules decided the call of thread t without the tie-break, or
\* sent it to the tie-break, from the signature of its path.
DecidedByComplex(t) ==
    /\ Returned(t) /\ th[t].ran
    /\ ~is_404_basic(RespOf(t), cf)

CodeShortCircuit(query, known) ==
    query.code \in NOT_404_RESPONSE_CODES /\ known.code = 404

\* C18 as stated: when no basic rule fires the result is false if the code
\* of the query is one of NOT_404_RESPONSE_CODES and the known 404 has code
\* 404, also on equal bodies; otherwise true on equal bodies; otherwise
\* false if the bodies are not fuzzy-equal; otherwise true if the body of the
\* query is shorter than MAX_FUZZY_LENGTH.  The tie-break request is sent
\* only when none of these steps decided and the stored diff is absent.
C18_DecisionOrder ==
    /\ \A t \in Threads :
         DecidedByComplex(t) =>
            LET query == FourOhFourResponse(RespOf(t))
                known == Stored(responses[th[t].self], PathOf(t))[1]
            IN  IF CodeShortCircuit(query, known)
                THEN th[t].res = "false" /\ ~th[t].large
                ELSE IF known.body = query.body
                THEN th[t].res = "true" /\ ~th[t].large
                ELSE IF ~fuzzy_equal(known.body, query.body, IS_EQUAL_RATIO)
                THEN th[t].res = "false" /\ ~th[t].large
                ELSE IF StrLen(query.body) < MAX_FUZZY_LENGTH
                THEN th[t].res = "true" /\ ~th[t].large
                ELSE TRUE
    /\ \A t \in Threads :
         th[t].pc = "probe2" =>
            LET query == FourOhFourResponse(RespOf(t))
                known == th[t].known[1]
            IN  /\ ~CodeShortCircuit(query, known)
                /\ known.body # query.body
                /\ fuzzy_equal(known.body, query.body, IS_EQUAL_RATIO)
                /\ StrLen(query.body) >= MAX_FUZZY_LENGTH
                /\ known.diff = None

\* C18, amended: as stated, with the doc_type step in its place: after the
\* code step and before the comparison of the bodies the result is false if
\* the doc_type of the query differs from the one of the known 404; and a
\* call that none of the steps decided goes to the tie-break.
C18_DecisionOrderWithDocType ==
    /\ \A t \in Threads :
         DecidedByComplex(t) =>
            LET query == FourOhFourResponse(RespOf(t))
                known == Stored(responses[th[t].self], PathOf(t))[1]
            IN  IF CodeShortCircuit(query, known)
                THEN th[t].res = "false" /\ ~th[t].large
                ELSE IF query.doc_type # known.doc_type
                THEN th[t].res = "false" /\ ~th[t].large
                ELSE IF known.body = query.body
                THEN th[t].res = "true" /\ ~th[t].large
                ELSE IF ~fuzzy_equal(known.body, query.body, IS_EQUAL_RATIO)
                THEN th[t].res = "false" /\ ~th[t].large
                ELSE IF StrLen(query.body) < MAX_FUZZY_LENGTH
                THEN th[t].res = "true" /\ ~th[t].large
                ELSE th[t].large
    /\ \A t \in Threads :
         th[t].pc = "probe2" =>
            LET query == FourOhFourResponse(RespOf(t))
                known == th[t].known[1]
            IN  /\ ~CodeShortCircuit(query, known)
                /\ query.doc_type = known.doc_type
                /\ known.body # query.body
                /\ fuzzy_equal(known.body, query.body, IS_EQUAL_RATIO)
                /\ StrLen(query.body) >= MAX_FUZZY_LENGTH
                /\ known.diff = None

\* The size step decided true: the call of the caller returned true on a
\* body shorter than MAX_FUZZY_LENGTH that is fuzzy-equal and not equal to
\* the body of the known 404 of its path, of the same doc_type and with no
\* code step.  Before it the equality step decided true on a large body: the
\* memo holds true for the response whose body is the one of the signature
\* stored for its path, which never went to the tie-break.
C18_Witness ==
    \E t \in Threads :
        /\ DecidedByComplex(t) /\ th[t].res = "true" /\ ~th[t].large
        /\ LET query == FourOhFourResponse(RespOf(t))
               known == Stored(responses[th[t].self], PathOf(t))[1]
           IN  /\ ~CodeShortCircuit(query, known)
               /\ query.doc_type = known.doc_type
               /\ known.body # query.body
               /\ fuzzy_equal(known.body, query.body, IS_EQUAL_RATIO)
               /\ StrLen(query.body) < MAX_FUZZY_LENGTH
        /\ \E r \in OrderResponses :
              /\ StrLen(FourOhFourResponse(r).body) >= MAX_FUZZY_LENGTH
              /\ \E j \in 1..Len(memo) :
                    memo[j].key = MemoKey(r) /\ memo[j].val = "true"
              /\ Stored(responses[th[t].self], normalize_path(r.url)) # None
              /\ LET known == Stored(responses[th[t].self], normalize_path(r.url))[1]
                 IN  /\ known.body = FourOhFourResponse(r).body
                     /\ known.diff = None
                     /\ ~CodeShortCircuit(FourOhFourResponse(r), known)

\* The signatures the prober can return: the fingerprints of the pages the
\* server may answer to a forced-404 request under a directory of the site.
\* sig is one the prober can return for a response of normalized path k.
ProbeSignatures ==
    { FourOhFourResponse(page) :
        page \in UNION { ServerPages(<<k, name>>) :
                            k \in Paths, name \in Range(RandNames) } }

ProbeSignature(k, sig) == sig.url[1] = k /\ sig \in ProbeSignatures

\* C19: a signature stored under key k is one the prober returned for a
\* response of normalized path k, with or without its diff; it carries k as
\* its normalized_path, so the tie-break wrote it back under the key it was
\* read from; and it is never built from a response handed to is_404.
C19_StoreProvenance ==
    \A i \in Instances : \A k \in DOMAIN responses[i] :
        Stored(responses[i], k) # None =>
            LET sig == Stored(responses[i], k)[1]
            IN  /\ sig.normalized_path = k
                /\ ProbeSignature(k, [sig EXCEPT !.diff = None])
                /\ sig.url \notin {r.url : r \in Responses}

\* A classifier holds the signatures of the paths /x/ and /y/, one of them
\* with the diff the tie-break wrote back.
C19_Witness ==
    \E i \in Instances, k \in {"/x/", "/y/"} :
        /\ \A q \in {"/x/", "/y/"} : Stored(responses[i], q) # None
        /\ Stored(responses[i], k)[1].diff # None

\* C20: a call on a response of normalized path P changes at most the store
\* entry of key P of its classifier: every change of an entry is made by a
\* step of a call that runs on that classifier for that key, whatever the
\* branch and also when a forced-404 request fails.
C20_FrameOtherKeys ==
    [][\A i \in Instances : \A q \in DOMAIN responses[i] \cup DOMAIN responses'[i] :
         ( /\ IsLive(instance', th', i)
           /\ Stored(responses'[i], q) # Stored(responses[i], q) ) =>
            \E t \in Threads :
                /\ InFlight(t) /\ th'[t] # th[t]
                /\ th[t].self = i
                /\ PathOf(t) = q]_vars

\* A call stored or updated the signature of its path in a store that holds
\* the signature of the other path.
C20_Witness ==
    \E t \in Threads, q \in Paths :
        /\ Returned(t) /\ th[t].wrote
        /\ q # PathOf(t)
        /\ Stored(responses[th[t].self], q) # None

====
